---- MODULE Spec2Model ----
(***************************************************************************)
(* Model of the job-intake core of the recruitment manager                 *)
(* (frontend/src/pages/JobIntakeDemo.tsx): the fit scorer                  *)
(* scoreCandidateFit with its skill normalizer norm, and the decision      *)
(* policy of handleAutoDecision.                                           *)
(*                                                                         *)
(* Strings that the code inspects character by character (skills) are      *)
(* sequences of one-character strings; strings the code only builds        *)
(* (reasons, decision labels) are TLA+ strings.  An optional number        *)
(* (minYearsExperience?, yearsExperience?) is <<>> when undefined and      *)
(* <<n>> when it holds n.                                                  *)
(***************************************************************************)
EXTENDS Integers, Sequences, FiniteSets, TLC

VARIABLES
    text,       \* the string under work: jdText, or the input of norm
    job,        \* jobProfile
    candidate,
    scoring,
    score,      \* handleAutoDecision's local score
    decision,   \* handleAutoDecision's local decision
    audit,      \* the audit log, most recent entry first
    computed,   \* the memoized values the last render recomputed
    clip,       \* how the last navigator.clipboard write ended
    normed,     \* the results of the successive applications of norm
    pending,    \* the updaters passed to setAudit that React has not applied yet
    pc

vars == <<text, job, candidate, scoring, score, decision, audit, computed, clip,
          normed, pending, pc>>

\* the variables of the workflow that the scorer's and the policy's runs leave alone
flowVars == <<text, audit, computed, clip, normed, pending>>

(***************************************************************************)
(* JavaScript string primitives used by norm.                              *)
(***************************************************************************)
UpperChars ==
    <<"A","B","C","D","E","F","G","H","I","J","K","L","M",
      "N","O","P","Q","R","S","T","U","V","W","X","Y","Z">>

LowerChars ==
    <<"a","b","c","d","e","f","g","h","i","j","k","l","m",
      "n","o","p","q","r","s","t","u","v","w","x","y","z">>

Digits == {"0","1","2","3","4","5","6","7","8","9"}

\* \s of a JavaScript regular expression, as far as the model's alphabet goes
WhiteSpace == {" ", "\t", "\n", "\r"}

UpperSet == {UpperChars[i] : i \in 1..26}

toLowerChar(c) ==
    IF c \in UpperSet
    THEN LowerChars[CHOOSE i \in 1..26 : UpperChars[i] = c]
    ELSE c

\* String.prototype.toLowerCase
toLowerCase(s) == [i \in 1..Len(s) |-> toLowerChar(s[i])]

\* the characters the class [^a-z0-9+#.] does not match
SkillChars == {LowerChars[i] : i \in 1..26} \cup Digits \cup {"+", "#", "."}

\* .replace(/[^a-z0-9+#.]/g, ' ')
replaceNonSkillChars(s) ==
    [i \in 1..Len(s) |-> IF s[i] \in SkillChars THEN s[i] ELSE " "]

\* .replace(/\s+/g, ' '): every maximal run of white space becomes one space
RECURSIVE collapseWhiteSpace(_)
collapseWhiteSpace(s) ==
    IF s = <<>> THEN <<>>
    ELSE IF Head(s) \in WhiteSpace
         THEN IF Len(s) > 1 /\ s[2] \in WhiteSpace
              THEN collapseWhiteSpace(Tail(s))
              ELSE <<" ">> \o collapseWhiteSpace(Tail(s))
         ELSE <<Head(s)>> \o collapseWhiteSpace(Tail(s))

RECURSIVE trimStart(_)
trimStart(s) ==
    IF s # <<>> /\ Head(s) \in WhiteSpace THEN trimStart(Tail(s)) ELSE s

RECURSIVE trimEnd(_)
trimEnd(s) ==
    IF s # <<>> /\ s[Len(s)] \in WhiteSpace
    THEN trimEnd(SubSeq(s, 1, Len(s) - 1))
    ELSE s

\* String.prototype.trim
trim(s) == trimEnd(trimStart(s))

\* String.prototype.includes: r occurs in s as a contiguous substring
\* (the empty string occurs in every string)
includes(s, r) ==
    \E i \in 1..(Len(s) - Len(r) + 1) : SubSeq(s, i, i + Len(r) - 1) = r

\* JavaScript truthiness of a string, of a number, of an optional number
truthyString(s) == s # <<>>
truthyNumber(n) == n # 0
undefined == <<>>
truthyOptional(v) == v # undefined /\ truthyNumber(v[1])

(***************************************************************************)
(* Skill normalizer                                                        *)
(***************************************************************************)
\* faulty variant: the string is trimmed before the signs are replaced
normTrimFirst(s) == collapseWhiteSpace(replaceNonSkillChars(trim(toLowerCase(s))))

norm(s) == trim(collapseWhiteSpace(replaceNonSkillChars(toLowerCase(s))))

(***************************************************************************)
(* Fit scorer                                                              *)
(***************************************************************************)
ReqWeight == 20
NiceWeight == 8
ExpWeight == 12
MaxScore == 100
MinScore == 0

\* faulty variant: every candidate skill has to match the job skill
someMatchEvery(cand, r) == \A s \in cand : includes(s, r) \/ includes(r, s)

\* Array.from(cand).some(s => s.includes(r) || r.includes(s))
someMatch(cand, r) == \E s \in cand : includes(s, r) \/ includes(r, s)

\* faulty variant: the guard on the empty job skill is missing
skillMatchedNoGuard(cand, r) == someMatch(cand, r)

\* the guard of both for-loops: r && Array.from(cand).some(...)
skillMatched(cand, r) == truthyString(r) /\ someMatch(cand, r)

\* faulty variant: the loop stops at the first match instead of counting every match
RECURSIVE matchLoopBreak(_, _, _, _)
matchLoopBreak(skills, cand, weight, acc) ==
    IF skills = <<>> THEN acc
    ELSE IF skillMatched(cand, Head(skills))
         THEN [matches |-> acc.matches + 1, score |-> acc.score + weight]
         ELSE matchLoopBreak(Tail(skills), cand, weight, acc)

\* for (const r of skills) if (matched) { matches += 1; score += weight }
\* acc is the pair of loop variables [matches, score]
RECURSIVE matchLoop(_, _, _, _)
matchLoop(skills, cand, weight, acc) ==
    IF skills = <<>> THEN acc
    ELSE matchLoop(Tail(skills), cand, weight,
                   IF skillMatched(cand, Head(skills))
                   THEN [matches |-> acc.matches + 1, score |-> acc.score + weight]
                   ELSE acc)

Min(a, b) == IF a <= b THEN a ELSE b
Max(a, b) == IF a >= b THEN a ELSE b

\* faulty variant: the ceiling is missing
clampNoCeiling(s) == Max(MinScore, s)

\* score = Math.min(100, Math.max(0, score))
clamp(s) == Min(MaxScore, Max(MinScore, s))

reqReason(n) == ToString(n) \o " required skill(s) matched"
niceReason(n) == ToString(n) \o " nice-to-have skill(s) matched"
meetsReason(x) == "Experience meets threshold (" \o ToString(x) \o "y)"
belowReason(x, y) ==
    "Experience below threshold (" \o ToString(x) \o "y < " \o ToString(y) \o "y)"

\* faulty variant: a job without a minimum counts as a minimum of 0 years
experienceFactorDefaultMin(j, c) ==
    IF truthyOptional(c.yearsExperience)
    THEN LET m == IF j.minYearsExperience = undefined THEN 0
                  ELSE j.minYearsExperience[1]
         IN IF c.yearsExperience[1] >= m
            THEN [points |-> ExpWeight,
                  reasons |-> <<meetsReason(c.yearsExperience[1])>>]
            ELSE [points |-> 0,
                  reasons |-> <<belowReason(c.yearsExperience[1], m)>>]
    ELSE [points |-> 0, reasons |-> <<>>]

\* if (job.minYearsExperience && candidate.yearsExperience) { ... }
\* the points and the reasons the experience block adds
experienceFactor(j, c) ==
    IF truthyOptional(j.minYearsExperience) /\ truthyOptional(c.yearsExperience)
    THEN IF c.yearsExperience[1] >= j.minYearsExperience[1]
         THEN [points |-> ExpWeight,
               reasons |-> <<meetsReason(c.yearsExperience[1])>>]
         ELSE [points |-> 0,
               reasons |-> <<belowReason(c.yearsExperience[1],
                                         j.minYearsExperience[1])>>]
    ELSE [points |-> 0, reasons |-> <<>>]

\* faulty variant: the nice-to-have reason is pushed before the required one
scoreSkillsNiceFirst(j, c) ==
    LET jobReq == [i \in 1..Len(j.requiredSkills) |-> norm(j.requiredSkills[i])]
        jobNice == [i \in 1..Len(j.niceToHaveSkills) |-> norm(j.niceToHaveSkills[i])]
        cand == {norm(c.skills[i]) : i \in 1..Len(c.skills)}
        req == matchLoop(jobReq, cand, ReqWeight, [matches |-> 0, score |-> 0])
        nice == matchLoop(jobNice, cand, NiceWeight, [matches |-> 0, score |-> req.score])
        exp == experienceFactor(j, c)
    IN [score |-> clamp(nice.score + exp.points),
        reasons |->
           (IF truthyNumber(nice.matches) THEN <<niceReason(nice.matches)>> ELSE <<>>)
           \o (IF truthyNumber(req.matches) THEN <<reqReason(req.matches)>> ELSE <<>>)
           \o exp.reasons]

\* the body of scoreCandidateFit after the early return
scoreSkills(j, c) ==
    LET jobReq == [i \in 1..Len(j.requiredSkills) |-> norm(j.requiredSkills[i])]
        jobNice == [i \in 1..Len(j.niceToHaveSkills) |-> norm(j.niceToHaveSkills[i])]
        cand == {norm(c.skills[i]) : i \in 1..Len(c.skills)}
        req == matchLoop(jobReq, cand, ReqWeight, [matches |-> 0, score |-> 0])
        nice == matchLoop(jobNice, cand, NiceWeight, [matches |-> 0, score |-> req.score])
        exp == experienceFactor(j, c)
    IN [score |-> clamp(nice.score + exp.points),
        reasons |->
           (IF truthyNumber(req.matches) THEN <<reqReason(req.matches)>> ELSE <<>>)
           \o (IF truthyNumber(nice.matches) THEN <<niceReason(nice.matches)>> ELSE <<>>)
           \o exp.reasons]

\* faulty variant: only the candidate's first skill is compared
scoreCandidateFitFirstSkill(j, c) ==
    IF Len(c.skills) = 0
    THEN [score |-> 0, reasons |-> <<"No skills provided">>]
    ELSE scoreSkills(j, [c EXCEPT !.skills = <<Head(c.skills)>>])

\* faulty variant: the early return gives no reason
scoreCandidateFitSilent(j, c) ==
    IF Len(c.skills) = 0 THEN [score |-> 0, reasons |-> <<>>] ELSE scoreSkills(j, c)

\* faulty variant: the early return for a candidate without skills is missing
scoreCandidateFitNoEarlyReturn(j, c) == scoreSkills(j, c)

scoreCandidateFit(j, c) ==
    IF Len(c.skills) = 0
    THEN [score |-> 0, reasons |-> <<"No skills provided">>]
    ELSE scoreSkills(j, c)

(***************************************************************************)
(* Decision policy                                                         *)
(***************************************************************************)
ProceedThreshold == 80
ReviewThreshold == 50

\* faulty variant: the boundary scores fall into the lower band
decideStrict(s) ==
    IF s > ProceedThreshold THEN "proceed_to_interview"
    ELSE IF s > ReviewThreshold THEN "needs_review"
    ELSE "reject_draft"

\* faulty variant: the second comparison is inverted
decideInverted(s) ==
    IF s >= ProceedThreshold THEN "proceed_to_interview"
    ELSE IF s < ReviewThreshold THEN "needs_review"
    ELSE "reject_draft"

decide(s) ==
    IF s >= ProceedThreshold THEN "proceed_to_interview"
    ELSE IF s >= ReviewThreshold THEN "needs_review"
    ELSE "reject_draft"

(***************************************************************************)
(* Field extractor                                                         *)
(***************************************************************************)
\* the characters U+2022 (bullet) and U+2013 (en dash), each one character
Bullet == "U+2022"
EnDash == "U+2013"

\* the characters that . of a regular expression does not match
LineTerminators == {"\n", "\r"}

\* the class [:\-]
LabelSeparators == {":", "-"}

lblTitle == <<"t","i","t","l","e">>
lblSkills == <<"s","k","i","l","l","s">>
lblRequiredSkills ==
    <<"r","e","q","u","i","r","e","d"," ","s","k","i","l","l","s">>
lblRequirements == <<"r","e","q","u","i","r","e","m","e","n","t","s">>
lblNiceToHave == <<"n","i","c","e"," ","t","o"," ","h","a","v","e">>
lblPreferred == <<"p","r","e","f","e","r","r","e","d">>
lblLocation == <<"l","o","c","a","t","i","o","n">>
lblLocations == <<"l","o","c","a","t","i","o","n","s">>
lblCtc == <<"c","t","c">>
lblSalary == <<"s","a","l","a","r","y">>
lblCompensation == <<"c","o","m","p","e","n","s","a","t","i","o","n">>
wordYears == <<"y","e","a","r","s">>
wordYrs == <<"y","r","s">>
sepAnd == <<" ","a","n","d"," ">>
JobRole == <<"J","o","b"," ","R","o","l","e">>

\* an optional string: undefined, or <<s>> when it holds s
some(v) == <<v>>

\* the literal lit (in lower case) stands at position i of s, whatever the case
matchesAt(s, i, lit) ==
    /\ i >= 1
    /\ i + Len(lit) - 1 <= Len(s)
    /\ toLowerChar(s[i]) = lit[1]
    /\ toLowerCase(SubSeq(s, i, i + Len(lit) - 1)) = lit

SetMin(S) == CHOOSE x \in S : \A y \in S : x <= y
SetMax(S) == CHOOSE x \in S : \A y \in S : x >= y

\* the end of the longest run of characters of class cls that starts at i
\* (i - 1 when the run is empty)
RECURSIVE runEnd(_, _, _)
runEnd(s, i, cls) ==
    IF i <= Len(s) /\ s[i] \in cls THEN runEnd(s, i + 1, cls) ELSE i - 1

\* the end of the longest run of characters outside cls that starts at i
RECURSIVE runEndNot(_, _, _)
runEndNot(s, i, cls) ==
    IF i <= Len(s) /\ s[i] \notin cls THEN runEndNot(s, i + 1, cls) ELSE i - 1

\* /(label1|label2|...)[:\-]([^\n]+)/i matched at position i: the labels that
\* match there with a separator and at least one character of the line after it
labelsAt(s, i, labels) ==
    {l \in labels :
        /\ matchesAt(s, i, l)
        /\ i + Len(l) + 1 <= Len(s)
        /\ s[i + Len(l)] \in LabelSeparators
        /\ s[i + Len(l) + 1] # "\n"}

\* faulty variant: the capture runs to the end of the text
restOfLineToEnd(s, labels) ==
    LET starts == {i \in 1..Len(s) : labelsAt(s, i, labels) # {}}
    IN IF starts = {} THEN undefined
       ELSE LET i == SetMin(starts)
                l == CHOOSE x \in labelsAt(s, i, labels) : TRUE
            IN some(SubSeq(s, i + Len(l) + 1, Len(s)))

\* regex.exec(text)?.[2] for /(label1|label2|...)[:\-]([^\n]+)/i: the capture of
\* the leftmost match, or undefined
restOfLine(s, labels) ==
    LET starts == {i \in 1..Len(s) : labelsAt(s, i, labels) # {}}
    IN IF starts = {} THEN undefined
       ELSE LET i == SetMin(starts)
                l == CHOOSE x \in labelsAt(s, i, labels) : TRUE
                from == i + Len(l) + 1
            IN some(SubSeq(s, from, runEndNot(s, from, {"\n"})))

\* /title[:\-]\s*(.+)/i matched at position i: the positions where (.+) can
\* start after the white space that \s* takes
titleCaptureStarts(s, i) ==
    IF matchesAt(s, i, lblTitle)
       /\ i + Len(lblTitle) <= Len(s)
       /\ s[i + Len(lblTitle)] \in LabelSeparators
    THEN LET j == i + Len(lblTitle) + 1
         IN {k \in j..(runEnd(s, j, WhiteSpace) + 1) :
                k <= Len(s) /\ s[k] \notin LineTerminators}
    ELSE {}

\* text.match(/title[:\-]\s*(.+)/i)?.[1]: \s* is greedy, so the capture starts
\* as far right as it can
titleMatch(s) ==
    LET starts == {i \in 1..Len(s) : titleCaptureStarts(s, i) # {}}
    IN IF starts = {} THEN undefined
       ELSE LET k == SetMax(titleCaptureStarts(s, SetMin(starts)))
            IN some(SubSeq(s, k, runEndNot(s, k, LineTerminators)))

\* the separators of seps (tried in order) that stand at position i of s
sepsAt(s, i, seps) == {n \in 1..Len(seps) : matchesAt(s, i, seps[n])}

\* String.prototype.split with an alternation of literals, case-insensitive
RECURSIVE split(_, _)
split(s, seps) ==
    LET cuts == {i \in 1..Len(s) : sepsAt(s, i, seps) # {}}
    IN IF cuts = {} THEN <<s>>
       ELSE LET i == SetMin(cuts)
                n == SetMin(sepsAt(s, i, seps))
            IN <<SubSeq(s, 1, i - 1)>>
               \o split(SubSeq(s, i + Len(seps[n]), Len(s)), seps)

\* faulty variant: the empty tokens are kept
trimNoFilter(parts) == [i \in 1..Len(parts) |-> trim(parts[i])]

\* .map(s => s.trim()).filter(Boolean)
trimAndFilter(parts) ==
    SelectSeq([i \in 1..Len(parts) |-> trim(parts[i])], truthyString)

\* /,|•|\u2022|\||\/|\n| and /i
SkillSeparators == <<<<",">>, <<Bullet>>, <<Bullet>>, <<"|">>, <<"/">>, <<"\n">>, sepAnd>>

\* /,|\||\//
LocationSeparators == <<<<",">>, <<"|">>, <<"/">>>>

\* (regex.exec(text)?.[2] || '').split(...).map(s => s.trim()).filter(Boolean)
listAfter(s, labels, seps) ==
    LET m == restOfLine(s, labels)
    IN trimAndFilter(split(IF m = undefined THEN <<>> ELSE m[1], seps))

DigitValues == <<"0","1","2","3","4","5","6","7","8","9">>

digitValue(c) == (CHOOSE d \in 1..10 : DigitValues[d] = c) - 1

\* parseInt(digits, 10) of a string of digits
RECURSIVE parseInt(_)
parseInt(ds) ==
    IF ds = <<>> THEN 0
    ELSE 10 * parseInt(SubSeq(ds, 1, Len(ds) - 1)) + digitValue(ds[Len(ds)])

\* /(\d+)\s*\+?\s*(years|yrs)/i matched at position i
yearsAt(s, i) ==
    /\ s[i] \in Digits
    /\ LET d == runEnd(s, i, Digits)
           w == runEnd(s, d + 1, WhiteSpace)
           p == IF w + 1 <= Len(s) /\ s[w + 1] = "+" THEN w + 1 ELSE w
           y == runEnd(s, p + 1, WhiteSpace) + 1
       IN matchesAt(s, y, wordYears) \/ matchesAt(s, y, wordYrs)

\* yearsMatch ? parseInt(yearsMatch[1], 10) : undefined
yearsMatch(s) ==
    LET starts == {i \in 1..Len(s) : yearsAt(s, i)}
    IN IF starts = {} THEN undefined
       ELSE LET i == SetMin(starts)
            IN some(parseInt(SubSeq(s, i, runEnd(s, i, Digits))))

\* (text.split(/\n|\./)[0] || 'Job Role').trim()
firstSentence(s) ==
    LET first == split(s, <<<<"\n">>, <<".">>>>)[1]
    IN trim(IF truthyString(first) THEN first ELSE JobRole)

extractJobProfile(t) ==
    LET lower == toLowerCase(t)
        tm == titleMatch(t)
        salary == restOfLine(t, {lblCtc, lblSalary, lblCompensation})
    IN [title |-> IF tm # undefined THEN trim(tm[1]) ELSE firstSentence(t),
        requiredSkills |->
            listAfter(t, {lblSkills, lblRequiredSkills, lblRequirements}, SkillSeparators),
        niceToHaveSkills |->
            listAfter(t, {lblNiceToHave, lblPreferred}, SkillSeparators),
        minYearsExperience |-> yearsMatch(lower),
        locations |-> listAfter(t, {lblLocation, lblLocations}, LocationSeparators),
        salaryHint |-> IF salary = undefined THEN undefined ELSE some(trim(salary[1]))]

(***************************************************************************)
(* Inputs of the scorer: job profiles and candidate profiles               *)
(***************************************************************************)
sReact == <<"R","e","a","c","t">>
sNodeJs == <<"N","o","d","e",".","j","s">>
sDocker == <<"D","o","c","k","e","r">>
sTypeScript == <<"T","y","p","e","S","c","r","i","p","t">>
sLowerReact == <<"r","e","a","c","t">>
sLowerDocker == <<"d","o","c","k","e","r">>
sReactJs == <<"R","e","a","c","t",".","j","s">>
sJs == <<"j","s">>
\* a token of punctuation only: it normalizes to the empty string
sDash == <<"-">>

\* the skills a job posting lists, in the order of the catalogue
ReqPool == <<sReact, sDash>>
NicePool == <<sNodeJs, sDash>>
\* the skills a candidate enters
CandPool == {sReactJs, sJs, sDash}

MaxReq == 4
MaxNice == 2
MaxCand == 2

MinYearsPool == {undefined, <<0>>, <<3>>}
YearsPool == {undefined, <<0>>, <<2>>, <<4>>}

SeqsUpTo(S, n) == UNION {[1..k -> S] : k \in 0..n}

\* the lists of at most n skills of a catalogue, repeats allowed, that keep the
\* catalogue's order
SkillLists(pool, n) ==
    {[i \in 1..Len(f) |-> pool[f[i]]] :
        f \in {g \in SeqsUpTo(1..Len(pool), n) :
                  \A i \in 1..(Len(g) - 1) : g[i] <= g[i + 1]}}

JobProfile(req, nice, minYears) ==
    [requiredSkills |-> req, niceToHaveSkills |-> nice, minYearsExperience |-> minYears]

CandidateProfile(skills, years) ==
    [skills |-> skills, yearsExperience |-> years]

\* the job and the two candidates of the specification's scenarios B and C
ScenarioJob == JobProfile(<<sReact, sNodeJs>>, <<sDocker>>, <<3>>)
ScenarioCandidateB == CandidateProfile(<<sLowerReact, sLowerDocker>>, <<4>>)
ScenarioCandidateC == CandidateProfile(<<sReact, sNodeJs, sTypeScript>>, <<4>>)

Jobs ==
    {JobProfile(req, nice, m) :
        req \in SkillLists(ReqPool, MaxReq),
        nice \in SkillLists(NicePool, MaxNice),
        m \in MinYearsPool}
    \cup {ScenarioJob}

Candidates ==
    {CandidateProfile(sk, y) : sk \in SeqsUpTo(CandPool, MaxCand), y \in YearsPool}
    \cup {ScenarioCandidateB, ScenarioCandidateC}

NoScoring == [score |-> 0, reasons |-> <<>>]

\* the step called navigator.clipboard.writeText for no draft
NoClipboardCall == [outcome |-> "idle", draft |-> <<>>]

\* no text, an empty log, nothing rendered, no clipboard write, norm not applied
FlowIdle ==
    /\ text = <<>>
    /\ audit = <<>>
    /\ computed = {}
    /\ clip = NoClipboardCall
    /\ normed = <<>>
    /\ pending = <<>>

(***************************************************************************)
(* The scorer and the decision applied to every job/candidate pair         *)
(***************************************************************************)
InitScore ==
    /\ job \in Jobs
    /\ candidate \in Candidates
    /\ scoring = NoScoring
    /\ score = 0
    /\ decision = ""
    /\ pc = "input"
    /\ FlowIdle

\* const scoring = useMemo(() => scoreCandidateFit(jobProfile, candidate), ...)
Score ==
    /\ pc = "input"
    /\ scoring' = scoreCandidateFit(job, candidate)
    /\ pc' = "scored"
    /\ UNCHANGED <<job, candidate, score, decision>>
    /\ UNCHANGED flowVars

\* the policy of handleAutoDecision applied to the score just computed:
\* const score = scoring.score; const decision = ...
DecideScored ==
    /\ pc = "scored"
    /\ score' = scoring.score
    /\ decision' = decide(scoring.score)
    /\ pc' = "decided"
    /\ UNCHANGED <<job, candidate, scoring>>
    /\ UNCHANGED flowVars

NextScore == Score \/ DecideScored

SpecScore == InitScore /\ [][NextScore]_vars

(***************************************************************************)
(* The decision policy applied to every score of 0..100                    *)
(***************************************************************************)
InitDecide ==
    /\ job = JobProfile(<<>>, <<>>, undefined)
    /\ candidate = CandidateProfile(<<>>, undefined)
    /\ scoring = NoScoring
    /\ score \in MinScore..MaxScore
    /\ decision = ""
    /\ pc = "policy"
    /\ FlowIdle

\* const decision = score >= 80 ? ... : score >= 50 ? ... : ...
decidePolicy ==
    /\ pc = "policy"
    /\ decision' = decide(score)
    /\ pc' = "policy_done"
    /\ UNCHANGED <<job, candidate, scoring, score>>
    /\ UNCHANGED flowVars

NextDecide == decidePolicy

SpecDecide == InitDecide /\ [][NextDecide]_vars

(***************************************************************************)
(* The scorer applied to candidates that differ in their skill lists only  *)
(***************************************************************************)
PairSkillPool == {sReactJs, sJs, sDash, sLowerDocker}

MaxPairSkills == 2

PairJobs ==
    {ScenarioJob,
     JobProfile(<<sReact, sDash>>, <<sNodeJs>>, undefined),
     JobProfile(<<>>, <<>>, <<0>>),
     JobProfile(<<sReact, sReact, sReact, sReact, sReact>>, <<sNodeJs>>, <<3>>)}

PairCandidates ==
    {CandidateProfile(sk, y) :
        sk \in SeqsUpTo(PairSkillPool, MaxPairSkills), y \in {undefined, <<2>>, <<4>>}}

InitPairs ==
    /\ job \in PairJobs
    /\ candidate \in PairCandidates
    /\ scoring = NoScoring
    /\ score = 0
    /\ decision = ""
    /\ pc = "input"
    /\ FlowIdle

NextPairs == Score \/ DecideScored

SpecPairs == InitPairs /\ [][NextPairs]_vars

(***************************************************************************)
(* The normalizer applied twice to every string over a small alphabet      *)
(***************************************************************************)
\* an upper-case letter, a lower-case letter, a kept sign, a replaced sign,
\* and two kinds of white space
NormAlphabet == {"A", "b", "+", "-", " ", "\t"}

MaxNormLen == 4

InitNorm ==
    /\ text \in SeqsUpTo(NormAlphabet, MaxNormLen)
    /\ normed = <<>>
    /\ pending = <<>>
    /\ job = JobProfile(<<>>, <<>>, undefined)
    /\ candidate = CandidateProfile(<<>>, undefined)
    /\ scoring = NoScoring
    /\ score = 0
    /\ decision = ""
    /\ audit = <<>>
    /\ computed = {}
    /\ clip = NoClipboardCall
    /\ pc = "norm"

\* norm(s), then norm of the result
Normalize ==
    /\ pc = "norm"
    /\ Len(normed) < 2
    /\ normed' = Append(normed, norm(IF normed = <<>> THEN text ELSE normed[Len(normed)]))
    /\ UNCHANGED <<text, job, candidate, scoring, score, decision, audit, computed,
                   clip, pending, pc>>

NextNorm == Normalize

SpecNorm == InitNorm /\ [][NextNorm]_vars

(***************************************************************************)
(* The extractor applied to every text of a few lines                      *)
(***************************************************************************)
lineTitle ==
    <<"T","i","t","l","e",":"," ","B","a","c","k","e","n","d"," ","E","n","g",
      "i","n","e","e","r">>
lineSkills ==
    <<"S","k","i","l","l","s",":"," ","P","y","t","h","o","n",","," ","P","o",
      "s","t","g","r","e","S","Q","L">>
lineExperience ==
    <<"E","x","p","e","r","i","e","n","c","e",":"," ","5","+"," ","y","e","a",
      "r","s">>
lineEmpty == <<>>
lineBlank == <<" "," ">>
lineTitleOnly == <<"T","i","t","l","e",":">>
lineSkillsOnly == <<"S","k","i","l","l","s",":">>
lineRequirements ==
    <<"r","e","q","u","i","r","e","m","e","n","t","s","-"," ","G","o"," ","a",
      "n","d"," ",","," ","R","u","s","t"," ","|","\r">>
lineNice ==
    <<"N","i","c","e"," ","t","o"," ","h","a","v","e",":"," ","D","o","c","k",
      "e","r"," ","U+2022"," ","A","W","S">>
lineLocations ==
    <<"L","o","c","a","t","i","o","n","s",":"," ","R","e","m","o","t","e"," ",
      "/"," ","P","u","n","e">>
lineSalary ==
    <<"S","a","l","a","r","y",":"," ","1","2","U+2013","2","0"," ","L","P","A">>
lineSentence ==
    <<"H","i","r","i","n","g"," ","n","o","w","."," ","A","p","p","l","y">>

LinePool ==
    {lineTitle, lineSkills, lineExperience, lineEmpty, lineBlank, lineTitleOnly,
     lineSkillsOnly, lineRequirements, lineNice, lineLocations, lineSalary,
     lineSentence}

MaxLines == 2

\* the lines joined by newlines
RECURSIVE joinLines(_)
joinLines(ls) ==
    IF ls = <<>> THEN <<>>
    ELSE IF Len(ls) = 1 THEN ls[1]
    ELSE ls[1] \o <<"\n">> \o joinLines(Tail(ls))

\* the text of the specification's scenario A
ScenarioAText == joinLines(<<lineTitle, lineSkills, lineExperience>>)

Texts == {joinLines(ls) : ls \in SeqsUpTo(LinePool, MaxLines)} \cup {ScenarioAText}

NoProfile ==
    [title |-> <<>>, requiredSkills |-> <<>>, niceToHaveSkills |-> <<>>,
     minYearsExperience |-> undefined, locations |-> <<>>, salaryHint |-> undefined]

InitExtract ==
    /\ text \in Texts
    /\ job = NoProfile
    /\ candidate = CandidateProfile(<<>>, undefined)
    /\ scoring = NoScoring
    /\ score = 0
    /\ decision = ""
    /\ audit = <<>>
    /\ computed = {}
    /\ clip = NoClipboardCall
    /\ normed = <<>>
    /\ pending = <<>>
    /\ pc = "text"

\* const jobProfile = useMemo(() => extractJobProfile(jdText), [jdText])
Extract ==
    /\ pc = "text"
    /\ job' = extractJobProfile(text)
    /\ pc' = "extracted"
    /\ UNCHANGED <<text, candidate, scoring, score, decision, audit, computed, clip,
                   normed, pending>>

NextExtract == Extract

SpecExtract == InitExtract /\ [][NextExtract]_vars

(***************************************************************************)
(* The component JobIntakeDemo: its state, its derived values, its inputs   *)
(* and its three buttons                                                    *)
(***************************************************************************)
\* useState('Title: Full Stack Developer\nSkills: ...')
defaultJdText ==
    <<"T","i","t","l","e",":"," ","F","u","l","l"," ","S","t","a","c","k"," ",
      "D","e","v","e","l","o","p","e","r","\n","S","k","i","l","l","s",":",
      " ","R","e","a","c","t",","," ","N","o","d","e",".","j","s",","," ","T",
      "y","p","e","S","c","r","i","p","t",","," ","P","o","s","t","g","r","e",
      "S","Q","L","\n","N","i","c","e"," ","t","o"," ","h","a","v","e",":",
      " ","D","o","c","k","e","r",","," ","A","W","S","\n","L","o","c","a",
      "t","i","o","n","s",":"," ","R","e","m","o","t","e",","," ","B","a","n",
      "g","a","l","o","r","e","\n","E","x","p","e","r","i","e","n","c","e",
      ":"," ","3","+"," ","y","e","a","r","s","\n","S","a","l","a","r","y",
      ":"," ","1","2","U+2013","2","0"," ","L","P","A">>

\* the texts the textarea is set to
JdTexts == {defaultJdText, ScenarioAText}

\* the same and shorter texts, for the runs that only edit
EditTexts ==
    JdTexts \cup {lineEmpty, lineBlank, lineSentence, lineNice, lineExperience,
                  joinLines(<<lineTitleOnly, lineSkills>>)}

nameSample ==
    <<"S","a","m","p","l","e"," ","C","a","n","d","i","d","a","t","e">>
nameOther == <<"A","l">>

\* the values typed into the name, the skills and the years input
NameInputs == {nameSample, nameOther}

inputDefaultSkills ==
    <<"R","e","a","c","t",","," ","T","y","p","e","S","c","r","i","p","t",",",
      " ","N","o","d","e",".","j","s",","," ","D","o","c","k","e","r">>
inputPaddedSkills == <<" ","D","o","c","k","e","r"," ",",",","," ">>

SkillInputs == {inputDefaultSkills, inputPaddedSkills}

YearInputs == {<<"4">>, <<>>}

NamedCandidate(name, skills, years) ==
    [name |-> name, skills |-> skills, yearsExperience |-> years]

\* useState<CandidateProfile>({ name: 'Sample Candidate', skills: [...], ... })
defaultCandidate ==
    NamedCandidate(nameSample, <<sReact, sTypeScript, sNodeJs, sDocker>>, <<4>>)

\* e.target.value.split(',').map(s => s.trim()).filter(Boolean)
parseSkillsInput(v) == trimAndFilter(split(v, <<<<",">>>>))

\* e.target.value ? parseInt(e.target.value, 10) : undefined
parseYearsInput(v) == IF truthyString(v) THEN some(parseInt(v)) ELSE undefined

\* the decimal digits of a natural number, as a template literal prints it
RECURSIVE toDigits(_)
toDigits(n) ==
    IF n < 10 THEN <<DigitValues[n + 1]>>
    ELSE toDigits(n \div 10) \o <<DigitValues[(n % 10) + 1]>>

\* Array.prototype.join
RECURSIVE join(_, _)
join(list, sep) ==
    IF list = <<>> THEN <<>>
    ELSE IF Len(list) = 1 THEN list[1]
    ELSE list[1] \o sep \o join(Tail(list), sep)

\* value={candidate.skills.join(', ')}
skillsInputValue(c) == join(c.skills, <<",", " ">>)

\* value={candidate.yearsExperience ?? ''}
yearsInputValue(c) ==
    IF c.yearsExperience = undefined THEN <<>> ELSE toDigits(c.yearsExperience[1])

\* the candidates the three inputs can produce
CandidateStates ==
    {NamedCandidate(n, parseSkillsInput(sk), parseYearsInput(y)) :
        n \in NameInputs, sk \in SkillInputs, y \in YearInputs}

\* useMemo(() => extractJobProfile(jdText), [jdText]): the profile of each text
jobProfileMemo == [t \in EditTexts |-> extractJobProfile(t)]

\* useMemo(() => scoreCandidateFit(jobProfile, candidate), [jobProfile, candidate])
scoringMemo ==
    [j \in {jobProfileMemo[t] : t \in EditTexts} |->
        [c \in CandidateStates |-> scoreCandidateFit(j, c)]]

\* the action tags of the three buttons
tagParsed == "job_profile_parsed"
tagDecision == "decision_made"
tagDrafted == "email_drafted"

txtParsedJob == <<"P","a","r","s","e","d"," ","j","o","b",":"," ">>
txtDecision == <<"D","e","c","i","s","i","o","n",":"," ">>
txtScoreOpen == <<" ","(","s","c","o","r","e"," ">>
txtClose == <<")">>
txtDraftCopied ==
    <<"D","r","a","f","t"," ","c","o","p","i","e","d"," ","t","o"," ","c","l",
      "i","p","b","o","a","r","d"," ","(","s","c","o","r","e"," ">>
labelProceed ==
    <<"p","r","o","c","e","e","d","_","t","o","_","i","n","t","e","r","v","i",
      "e","w">>
labelReview == <<"n","e","e","d","s","_","r","e","v","i","e","w">>
labelReject == <<"r","e","j","e","c","t","_","d","r","a","f","t">>

\* the decision label as the characters the template literal inserts
decisionLabel(d) ==
    CASE d = "proceed_to_interview" -> labelProceed
      [] d = "needs_review" -> labelReview
      [] d = "reject_draft" -> labelReject

\* `Parsed job: ${jobProfile.title}`
detailsParsed(title) == txtParsedJob \o title

\* faulty variant: the score is left out of the details
detailsDecisionNoScore(d, s) == txtDecision \o decisionLabel(d)

\* `Decision: ${decision} (score ${score})`
detailsDecision(d, s) ==
    txtDecision \o decisionLabel(d) \o txtScoreOpen \o toDigits(s) \o txtClose

\* faulty variant: the threshold is written in place of the score
detailsDraftedThreshold(s) == txtDraftCopied \o toDigits(ProceedThreshold) \o txtClose

\* `Draft copied to clipboard (score ${scoring.score})`
detailsDrafted(s) == txtDraftCopied \o toDigits(s) \o txtClose

\* scoring.score >= 80 selects the greeting and the body of the draft
InviteThreshold == 80

greetHi == <<"H","i">>
greetHello == <<"H","e","l","l","o">>
txtReviewed ==
    <<"W","e"," ","r","e","v","i","e","w","e","d"," ","y","o","u","r"," ","p",
      "r","o","f","i","l","e"," ","f","o","r"," ">>
txtGreatFit ==
    <<"."," ","Y","o","u"," ","s","e","e","m"," ","l","i","k","e"," ","a"," ",
      "g","r","e","a","t"," ","f","i","t","."," ","W","o","u","l","d"," ","y",
      "o","u"," ","b","e"," ","a","v","a","i","l","a","b","l","e"," ","f","o",
      "r"," ","a"," ","q","u","i","c","k"," ","c","a","l","l"," ","t","h","i",
      "s"," ","w","e","e","k","?">>
txtThanks ==
    <<"T","h","a","n","k","s"," ","f","o","r"," ","y","o","u","r"," ","i","n",
      "t","e","r","e","s","t"," ","i","n"," ">>
txtReverting ==
    <<"."," ","W","e"," ","a","r","e"," ","r","e","v","i","e","w","i","n","g",
      " ","p","r","o","f","i","l","e","s"," ","a","n","d"," ","w","i","l","l",
      " ","r","e","v","e","r","t"," ","s","o","o","n",".">>
txtRegards ==
    <<"\n","\n","R","e","g","a","r","d","s",",","\n","R","e","c","r","u","i",
      "t","m","e","n","t"," ","T","e","a","m">>

\* faulty variant: a score equal to the threshold gets the holding greeting
greetingStrict(s) == IF s > InviteThreshold THEN greetHi ELSE greetHello

greeting(s) == IF s >= InviteThreshold THEN greetHi ELSE greetHello

body(s, title) ==
    IF s >= InviteThreshold THEN txtReviewed \o title \o txtGreatFit
    ELSE txtThanks \o title \o txtReverting

\* `${greeting} ${candidate.name},\n\n${body}\n\nRegards,\nRecruitment Team`
emailDraft(s, title, name) ==
    greeting(s) \o <<" ">> \o name \o <<",", "\n", "\n">> \o body(s, title) \o txtRegards

\* navigator.clipboard?.writeText(draft).catch(() => {}): the write resolves, the
\* write rejects and the rejection is swallowed, or there is no clipboard
ClipboardOutcomes == {"written", "rejected", "unavailable"}

\* the audit log holds at most MaxAudit entries
MaxAudit == 2

\* { id: crypto.randomUUID(), action, details, timestamp: new Date() }: the id is
\* an identifier not used before and the clock ticks once per entry, so both
\* are the serial number of the entry
AuditEntry(action, details) ==
    [id |-> Len(audit) + 1, action |-> action, details |-> details,
     timestamp |-> Len(audit) + 1]

\* faulty variant: the new entry is put behind the older ones
addAuditAtTail(action, details) == audit' = audit \o <<AuditEntry(action, details)>>

\* faulty variant: the new entry replaces the log
addAuditReplace(action, details) == audit' = <<AuditEntry(action, details)>>

\* setAudit(prev => [{ ... }, ...prev])
addAudit(action, details) == audit' = <<AuditEntry(action, details)>> \o audit

\* faulty variant: the scoring is memoised on the candidate alone
renderKeepScoring(c, ran) ==
    /\ job' = IF "extract" \in ran THEN jobProfileMemo[text'] ELSE job
    /\ scoring' = IF ran = {"score"} THEN scoringMemo[job'][c] ELSE scoring
    /\ computed' = ran

\* the render after a state change: useMemo evaluates again the functions in
\* ran, those with a changed dependency, and keeps the other derived values
render(c, ran) ==
    /\ job' = IF "extract" \in ran THEN jobProfileMemo[text'] ELSE job
    /\ scoring' = IF "score" \in ran THEN scoringMemo[job'][c] ELSE scoring
    /\ computed' = ran

\* the first render of the component
InitFlow ==
    /\ text = defaultJdText
    /\ candidate = defaultCandidate
    /\ job = jobProfileMemo[text]
    /\ scoring = scoringMemo[job][candidate]
    /\ score = 0
    /\ decision = ""
    /\ audit = <<>>
    /\ computed = {"extract", "score"}
    /\ clip = NoClipboardCall
    /\ normed = <<>>
    /\ pending = <<>>
    /\ pc = "rendered"

\* setJdText(e.target.value)
setJdTextTo(v) ==
    /\ text' = v
    /\ render(candidate, {"extract", "score"})
    /\ clip' = NoClipboardCall
    /\ UNCHANGED <<candidate, score, decision, audit, normed, pending, pc>>

\* <Textarea value={jdText} onChange={e => setJdText(e.target.value)} />
setJdText == \E v \in JdTexts \ {text} : setJdTextTo(v)

\* setCandidate(c => ({ ...c, [field]: value })): a new candidate object
setCandidate(c) ==
    /\ candidate' = c
    /\ text' = text
    /\ render(c, {"score"})
    /\ clip' = NoClipboardCall
    /\ UNCHANGED <<score, decision, audit, normed, pending, pc>>

\* onChange of the name input
setCandidateName ==
    \E v \in NameInputs \ {candidate.name} :
        setCandidate([candidate EXCEPT !.name = v])

\* onChange of the skills input
setCandidateSkills ==
    \E v \in SkillInputs \ {skillsInputValue(candidate)} :
        setCandidate([candidate EXCEPT !.skills = parseSkillsInput(v)])

\* onChange of the years input
setCandidateYears ==
    \E v \in YearInputs \ {yearsInputValue(candidate)} :
        setCandidate([candidate EXCEPT !.yearsExperience = parseYearsInput(v)])

\* a button handler has recorded its entry: the log is rendered again, the
\* derived values are kept
recorded ==
    /\ computed' = {}
    /\ UNCHANGED <<text, job, candidate, scoring, score, decision, normed, pending, pc>>

handleParse ==
    /\ Len(audit) < MaxAudit
    /\ addAudit(tagParsed, detailsParsed(job.title))
    /\ clip' = NoClipboardCall
    /\ recorded

handleAutoDecision ==
    /\ Len(audit) < MaxAudit
    /\ addAudit(tagDecision, detailsDecision(decide(scoring.score), scoring.score))
    /\ clip' = NoClipboardCall
    /\ recorded

\* faulty variant: the entry is recorded only after a successful write
handleEmailDraftAwaited ==
    /\ Len(audit) < MaxAudit
    /\ \E outcome \in ClipboardOutcomes :
          /\ clip' = [outcome |-> outcome,
                      draft |-> emailDraft(scoring.score, job.title, candidate.name)]
          /\ IF outcome = "written"
             THEN addAudit(tagDrafted, detailsDrafted(scoring.score))
             ELSE audit' = audit
    /\ recorded

handleEmailDraft ==
    /\ Len(audit) < MaxAudit
    /\ \E outcome \in ClipboardOutcomes :
          clip' = [outcome |-> outcome,
                   draft |-> emailDraft(scoring.score, job.title, candidate.name)]
    /\ addAudit(tagDrafted, detailsDrafted(scoring.score))
    /\ recorded

NextFlow ==
    \/ setJdText
    \/ setCandidateName
    \/ setCandidateSkills
    \/ setCandidateYears
    \/ handleParse
    \/ handleAutoDecision
    \/ handleEmailDraft

SpecFlow == InitFlow /\ [][NextFlow]_vars

(***************************************************************************)
(* The inputs alone: the text and the candidate are edited, no button is    *)
(* pressed                                                                  *)
(***************************************************************************)
InitEdit == InitFlow

typeJdText == \E v \in EditTexts \ {text} : setJdTextTo(v)

NextEdit ==
    \/ typeJdText
    \/ setCandidateName
    \/ setCandidateSkills
    \/ setCandidateYears

SpecEdit == InitEdit /\ [][NextEdit]_vars

(***************************************************************************)
(* Several handler calls in one React batch: setAudit queues the updater,   *)
(* React applies the queued updaters in call order before the next render   *)
(***************************************************************************)
\* faulty variant: the new log is built from the log of the handler's render
updaterFromRender(prev, action, details) == <<AuditEntry(action, details)>> \o audit

\* prev => [{ id: crypto.randomUUID(), action, details, timestamp: new Date() },
\* ...prev], with the id and the clock reading of AuditEntry
updater(prev, action, details) ==
    <<[id |-> Len(prev) + 1, action |-> action, details |-> details,
       timestamp |-> Len(prev) + 1]>> \o prev

\* React applies the queued updaters one after the other, each to the result
\* of the one before
RECURSIVE applyUpdaters(_, _)
applyUpdaters(prev, queue) ==
    IF queue = <<>> THEN prev
    ELSE applyUpdaters(updater(prev, Head(queue).action, Head(queue).details),
                       Tail(queue))

InitBatch == InitFlow

\* addAudit called while React batches: setAudit only queues the updater
queueAudit(action, details) ==
    /\ Len(audit) + Len(pending) < MaxAudit
    /\ pending' = Append(pending, [action |-> action, details |-> details])
    /\ computed' = {}
    /\ UNCHANGED <<text, job, candidate, scoring, score, decision, audit, normed, pc>>

queueParse ==
    /\ queueAudit(tagParsed, detailsParsed(job.title))
    /\ clip' = NoClipboardCall

queueAutoDecision ==
    /\ queueAudit(tagDecision, detailsDecision(decide(scoring.score), scoring.score))
    /\ clip' = NoClipboardCall

queueEmailDraft ==
    /\ queueAudit(tagDrafted, detailsDrafted(scoring.score))
    /\ \E outcome \in ClipboardOutcomes :
          clip' = [outcome |-> outcome,
                   draft |-> emailDraft(scoring.score, job.title, candidate.name)]

\* the batch ends: React applies the queued updaters and renders the log
commit ==
    /\ pending # <<>>
    /\ audit' = applyUpdaters(audit, pending)
    /\ pending' = <<>>
    /\ computed' = {}
    /\ clip' = NoClipboardCall
    /\ UNCHANGED <<text, job, candidate, scoring, score, decision, normed, pc>>

\* a text edit is an event of its own: nothing is queued when it is handled
editJdText == pending = <<>> /\ setJdText

NextBatch ==
    \/ queueParse
    \/ queueAutoDecision
    \/ queueEmailDraft
    \/ commit
    \/ editJdText

SpecBatch == InitBatch /\ [][NextBatch]_vars

(***************************************************************************)
(* Properties                                                              *)
(***************************************************************************)
Scored == pc \in {"scored", "decided"}

HasSkills == candidate.skills # <<>>

\* the normalized skills of the candidate
CandNorm == {norm(candidate.skills[i]) : i \in 1..Len(candidate.skills)}

NormAll(skills) == [i \in 1..Len(skills) |-> norm(skills[i])]

\* c contains r or r contains c, for some normalized candidate skill c of cn
Contained(cn, r) == \E c \in cn : includes(c, r) \/ includes(r, c)

CountContained(normSkills, cn) ==
    Cardinality({i \in 1..Len(normSkills) : Contained(cn, normSkills[i])})

CountContainedNonEmpty(normSkills, cn) ==
    Cardinality({i \in 1..Len(normSkills) :
                    normSkills[i] # <<>> /\ Contained(cn, normSkills[i])})

\* the number of entries of a job skill list whose normalized form is contained
MatchCount(skills) == CountContained(NormAll(skills), CandNorm)

\* the same count over the entries whose normalized form is not empty
MatchCountNonEmpty(skills) == CountContainedNonEmpty(NormAll(skills), CandNorm)

HasReason(r) == \E i \in 1..Len(scoring.reasons) : scoring.reasons[i] = r

BothYearsPresent ==
    job.minYearsExperience # undefined /\ candidate.yearsExperience # undefined

\* 1 when the scorer reports the experience threshold as met, else 0
ExperienceMet ==
    IF candidate.yearsExperience # undefined
       /\ HasReason(meetsReason(candidate.yearsExperience[1]))
    THEN 1 ELSE 0

\* the points of the skill matches, before clamping
SkillTotal ==
    20 * MatchCountNonEmpty(job.requiredSkills)
    + 8 * MatchCountNonEmpty(job.niceToHaveSkills)

YearValues == {v[1] : v \in (MinYearsPool \cup YearsPool) \ {undefined}}

ExperienceReasons ==
    {meetsReason(x) : x \in YearValues}
    \cup {belowReason(x, y) : x \in YearValues, y \in YearValues}

\* C1: the score scoreCandidateFit returns is an integer of 0..100 for every
\* job and every candidate, however many skills match.
C1_ScoreInRange == Scored => scoring.score \in 0..100

\* C1 witness: the matches and the experience add up to more than 100
C1_Witness ==
    /\ pc = "scored"
    /\ HasSkills
    /\ SkillTotal + 12 * ExperienceMet > 100
    /\ scoring.score = 100

\* C2: a candidate without skills gets exactly score 0 and the single reason
\* "No skills provided", whatever the job and the years of experience are.
C2_NoSkills ==
    (Scored /\ candidate.skills = <<>>)
        => scoring = [score |-> 0, reasons |-> <<"No skills provided">>]

\* C2 witness: no skills, while the job lists skills and the experience
\* threshold is met
C2_Witness ==
    /\ pc = "scored"
    /\ candidate.skills = <<>>
    /\ job.requiredSkills # <<>>
    /\ job.minYearsExperience = <<3>>
    /\ candidate.yearsExperience = <<4>>

\* C3: the decision is exactly one of three labels: proceed_to_interview when
\* score >= 80, needs_review when 50 <= score < 80, reject_draft when
\* score < 50; 80 and 50 belong to the higher band.
C3_DecisionBands ==
    pc = "policy_done" =>
        /\ decision \in {"proceed_to_interview", "needs_review", "reject_draft"}
        /\ (decision = "proceed_to_interview") <=> (score >= 80)
        /\ (decision = "needs_review") <=> (50 <= score /\ score < 80)
        /\ (decision = "reject_draft") <=> (score < 50)

\* C3 witness: a boundary score has been decided
C3_Witness == pc = "policy_done" /\ score = 80 /\ decision = "proceed_to_interview"

Rank(d) ==
    CASE d = "reject_draft" -> 0
      [] d = "needs_review" -> 1
      [] d = "proceed_to_interview" -> 2

\* C4: the decision is monotonic: for scores a <= b the decision for a is never
\* a better outcome than the decision for b.
C4_DecisionMonotonic ==
    pc = "policy_done" =>
        \A a \in 0..score : Rank(decide(a)) <= Rank(decision)

\* C4 witness: a score above a lower score of another band has been decided
C4_Witness ==
    /\ pc = "policy_done"
    /\ score = 79
    /\ decision = "needs_review"
    /\ decide(49) = "reject_draft"

\* C5 as stated: with at least one candidate skill the score is
\* min(100, 20*R + 8*O + 12*E), R and O counting every job skill whose
\* normalized form contains or is contained in a normalized candidate skill.
C5_Original ==
    (Scored /\ HasSkills) =>
        scoring.score = Min(100, 20 * MatchCount(job.requiredSkills)
                                 + 8 * MatchCount(job.niceToHaveSkills)
                                 + 12 * ExperienceMet)

\* C5 amended: the same, R and O counting only the job skills whose normalized
\* form is not empty.
C5_ScoreFormula ==
    (Scored /\ HasSkills) =>
        scoring.score = Min(100, SkillTotal + 12 * ExperienceMet)

\* C5 witness: required and nice-to-have skills match, and the job lists a
\* required skill that normalizes to the empty string
C5_Witness ==
    /\ pc = "scored"
    /\ HasSkills
    /\ \E i \in 1..Len(job.requiredSkills) : norm(job.requiredSkills[i]) = <<>>
    /\ MatchCountNonEmpty(job.requiredSkills) > 0
    /\ MatchCountNonEmpty(job.niceToHaveSkills) > 0
    /\ scoring.score = SkillTotal + 12

\* C6: when both years are present and the candidate's years reach the job's
\* minimum, 12 points are added before clamping and the reason
\* "Experience meets threshold (<X>y)" is given.
C6_ExperienceMet ==
    (/\ Scored /\ HasSkills /\ BothYearsPresent
     /\ candidate.yearsExperience[1] >= job.minYearsExperience[1])
        => /\ scoring.score = Min(100, SkillTotal + 12)
           /\ HasReason(meetsReason(candidate.yearsExperience[1]))

\* C7: when both years are present and the candidate's years are below the
\* job's minimum, no points are added for experience and the reason
\* "Experience below threshold (<X>y < <Y>y)" is given.
C7_ExperienceBelow ==
    (/\ Scored /\ HasSkills /\ BothYearsPresent
     /\ candidate.yearsExperience[1] < job.minYearsExperience[1])
        => /\ scoring.score = Min(100, SkillTotal)
           /\ HasReason(belowReason(candidate.yearsExperience[1],
                                    job.minYearsExperience[1]))

\* C8: when the job's minimum or the candidate's years are absent, the score
\* is the clamped skill total alone and no reason mentions experience.
C8_ExperienceSkipped ==
    (Scored /\ ~BothYearsPresent) =>
        /\ scoring.score = Min(100, SkillTotal)
        /\ \A i \in 1..Len(scoring.reasons) :
              scoring.reasons[i] \notin ExperienceReasons

\* C8 witness: a candidate with years and matching skills, a job without minimum
C8_Witness ==
    /\ pc = "scored"
    /\ job.minYearsExperience = undefined
    /\ candidate.yearsExperience = <<4>>
    /\ HasSkills
    /\ scoring.score > 0

\* C9: for the job [React, Node.js] / [Docker] / 3 years, the candidate
\* [react, docker] with 4 years scores 40 and is decided reject_draft; the
\* candidate [React, Node.js, TypeScript] with 4 years scores 52 and is decided
\* needs_review.
C9_Scenarios ==
    (pc = "decided" /\ job = ScenarioJob) =>
        /\ candidate = ScenarioCandidateB =>
              /\ scoring.score = 40
              /\ scoring.reasons = <<"1 required skill(s) matched",
                                     "1 nice-to-have skill(s) matched",
                                     "Experience meets threshold (4y)">>
              /\ decision = "reject_draft"
        /\ candidate = ScenarioCandidateC =>
              /\ scoring.score = 52
              /\ scoring.reasons = <<"2 required skill(s) matched",
                                     "Experience meets threshold (4y)">>
              /\ decision = "needs_review"

\* C9 witness: the second scenario has been scored and decided
C9_Witness ==
    /\ pc = "decided"
    /\ job = ScenarioJob
    /\ candidate = ScenarioCandidateC
    /\ score = 52

\* C10: a job without required skills, nice-to-have skills and minimum
\* experience yields score 0 for every candidate with at least one skill.
C10_EmptyJob ==
    (/\ Scored /\ HasSkills
     /\ job.requiredSkills = <<>>
     /\ job.niceToHaveSkills = <<>>
     /\ job.minYearsExperience = undefined)
        => scoring.score = 0

\* C10 witness: an experienced candidate with two skills against the empty job
C10_Witness ==
    /\ pc = "scored"
    /\ job = JobProfile(<<>>, <<>>, undefined)
    /\ Len(candidate.skills) = 2
    /\ candidate.yearsExperience = <<4>>

\* C11: normalization is idempotent: norm(norm(s)) = norm(s) for every string s.
C11_NormIdempotent == Len(normed) = 2 => normed[2] = normed[1]

\* C11 witness: a string that the first application changes in case, in signs
\* and in white space has been normalized twice
C11_Witness ==
    /\ Len(normed) = 2
    /\ text = <<" ", "A", "-", "b">>
    /\ normed[1] = <<"a", " ", "b">>

Extracted == pc = "extracted"

\* the first position >= from at which e occurs in s, or 0
FirstOccurrence(s, e, from) ==
    LET at == {i \in from..(Len(s) - Len(e) + 1) : SubSeq(s, i, i + Len(e) - 1) = e}
    IN IF at = {} THEN 0 ELSE SetMin(at)

\* the entries occur in s one after the other, in their order
RECURSIVE InOrder(_, _, _)
InOrder(entries, s, from) ==
    \/ entries = <<>>
    \/ LET i == FirstOccurrence(s, Head(entries), from)
       IN i # 0 /\ InOrder(Tail(entries), s, i + Len(Head(entries)))

TextLines == split(text, <<<<"\n">>>>)

CleanTokens(entries) ==
    /\ \A i \in 1..Len(entries) :
          /\ entries[i] # <<>>
          /\ entries[i][1] \notin WhiteSpace
          /\ entries[i][Len(entries[i])] \notin WhiteSpace
    /\ \E n \in 1..Len(TextLines) : InOrder(entries, TextLines[n], 1)

\* C12: the required and the nice-to-have skills that extractJobProfile returns
\* hold no empty string and no entry with leading or trailing white space, and
\* keep the order of the tokens of their line.
C12_CleanSkillLists ==
    Extracted => CleanTokens(job.requiredSkills) /\ CleanTokens(job.niceToHaveSkills)

\* C12 witness: a skills line with an empty token, padded tokens and a trailing
\* separator and carriage return has been split into its two skills
C12_Witness ==
    /\ Extracted
    /\ text = lineRequirements
    /\ job.requiredSkills = <<<<"G","o">>, <<"R","u","s","t">>>>

\* the text holds the label "title" followed by a separator
HasTitleLabel ==
    \E i \in 1..Len(text) :
        /\ matchesAt(text, i, lblTitle)
        /\ i + Len(lblTitle) <= Len(text)
        /\ text[i + Len(lblTitle)] \in LabelSeparators

\* the text up to its first newline or full stop is empty or white space
BlankFirstSentence ==
    \A i \in 1..runEndNot(text, 1, {"\n", "."}) : text[i] \in WhiteSpace

\* C13: for the empty text, and for a text without title label whose first
\* sentence is empty or white space, the title is the placeholder "Job Role"; for
\* the empty text the three lists are empty and the optional fields absent.
C13_Defaults ==
    Extracted =>
        /\ (~HasTitleLabel /\ BlankFirstSentence) => job.title = JobRole
        /\ text = <<>> =>
              /\ job.requiredSkills = <<>>
              /\ job.niceToHaveSkills = <<>>
              /\ job.locations = <<>>
              /\ job.minYearsExperience = undefined
              /\ job.salaryHint = undefined

\* C14: the text of scenario A yields the title "Backend Engineer", the required
\* skills ["Python", "PostgreSQL"], minimum experience 5 and no locations.
C14_ScenarioA ==
    (Extracted /\ text = ScenarioAText) =>
        /\ job.title = <<"B","a","c","k","e","n","d"," ","E","n","g","i","n","e","e","r">>
        /\ job.requiredSkills =
              <<<<"P","y","t","h","o","n">>,
                <<"P","o","s","t","g","r","e","S","Q","L">>>>
        /\ job.minYearsExperience = <<5>>
        /\ job.locations = <<>>

\* C14 witness: the text of scenario A has been extracted
C14_Witness ==
    /\ Extracted
    /\ text = ScenarioAText
    /\ job.niceToHaveSkills = <<>>
    /\ job.salaryHint = undefined

\* the step put exactly one entry with this tag at the head of the log
Appended(tag) ==
    /\ Len(audit') = Len(audit) + 1
    /\ Tail(audit') = audit
    /\ audit'[1].action = tag

\* C15: each of the three buttons appends exactly one audit entry: Parse Job one
\* tagged job_profile_parsed whose details contain the current job title, Decide
\* Action one tagged decision_made whose details contain the decision label and
\* the current score, Draft Email one tagged email_drafted whose details contain
\* the current score.
C15_OneEntryPerAction ==
    [][/\ handleParse =>
             /\ Appended("job_profile_parsed")
             /\ includes(audit'[1].details, job.title)
       /\ handleAutoDecision =>
             /\ Appended("decision_made")
             /\ includes(audit'[1].details, decisionLabel(decide(scoring.score)))
             /\ includes(audit'[1].details, toDigits(scoring.score))
       /\ handleEmailDraft =>
             /\ Appended("email_drafted")
             /\ includes(audit'[1].details, toDigits(scoring.score))]_vars

\* C15 witness: Decide Action and then Draft Email were pressed at score 80
C15_Witness ==
    /\ Len(audit) = 2
    /\ audit[1].action = "email_drafted"
    /\ includes(audit[1].details, <<"8", "0">>)
    /\ audit[2].action = "decision_made"
    /\ includes(audit[2].details, labelProceed \o txtScoreOpen \o <<"8", "0">>)

\* C16: every step in which the workflow extracts a job profile or scores a
\* candidate adds exactly one entry to the audit log.
C16_ComputationsAudited ==
    [][computed' # {} => Len(audit') = Len(audit) + 1]_vars

\* C17: the audit log is append-only: every step keeps the entries of the log,
\* with their fields and in their order, and the length never decreases.
C17_AppendOnly ==
    [][/\ Len(audit') >= Len(audit)
       /\ SubSeq(audit', Len(audit') - Len(audit) + 1, Len(audit')) = audit]_vars

\* C17 witness: the entry recorded for the first text is still in the log after
\* the text and the candidate were edited and a second entry was recorded
C17_Witness ==
    /\ Len(audit) = 2
    /\ text = ScenarioAText
    /\ candidate.name = nameOther
    /\ audit[2].details = detailsParsed(jobProfileMemo[defaultJdText].title)
    /\ audit[1].action = "decision_made"

\* C18: the log is ordered most-recent-first: it is the reverse of the order in
\* which its entries were created.
C18_MostRecentFirst ==
    \A i \in 1..Len(audit) : audit[i].id = Len(audit) - i + 1

\* C18 witness: Draft Email and then Parse Job were pressed; the later entry
\* is at the head
C18_Witness ==
    /\ Len(audit) = 2
    /\ audit[1].action = "job_profile_parsed"
    /\ audit[2].action = "email_drafted"
    /\ audit[1].timestamp > audit[2].timestamp

\* C19: Draft Email appends its one email_drafted entry whether the clipboard
\* write succeeds, is rejected or there is no clipboard.
C19_DraftAlwaysRecorded ==
    [][\A outcome \in ClipboardOutcomes :
          clip'.outcome = outcome => Appended("email_drafted")]_vars

\* C19 witness: a rejected write and a missing clipboard, each with its entry
C19_Witness ==
    /\ clip.outcome \in {"rejected", "unavailable"}
    /\ Len(audit) = 2
    /\ \A i \in 1..2 : audit[i].action = "email_drafted"

\* C20 as stated: an empty reasons list implies a candidate without skills.
C20_Original ==
    (Scored /\ scoring.reasons = <<>>) => ~HasSkills

\* C20: the reasons are empty only for a candidate with at least one skill, no
\* matched job skill and score 0; a candidate without skills, and a candidate
\* with a matched skill, get at least one reason.
C20_EmptyReasons ==
    Scored =>
        /\ scoring.reasons = <<>> =>
              /\ HasSkills
              /\ MatchCountNonEmpty(job.requiredSkills) = 0
              /\ MatchCountNonEmpty(job.niceToHaveSkills) = 0
              /\ scoring.score = 0
        /\ ~HasSkills => scoring.reasons # <<>>
        /\ (HasSkills /\ MatchCountNonEmpty(job.requiredSkills)
                          + MatchCountNonEmpty(job.niceToHaveSkills) > 0)
              => scoring.reasons # <<>>

\* C20 witness: a candidate with a skill that matches none of the job's skills,
\* and no experience factor: the reasons are empty
C20_Witness ==
    /\ Scored
    /\ HasSkills
    /\ job.requiredSkills # <<>>
    /\ scoring.reasons = <<>>

\* the reason a count of matched required / nice-to-have skills is reported by
RequiredReasonOf(n) == ToString(n) \o " required skill(s) matched"
NiceReasonOf(n) == ToString(n) \o " nice-to-have skill(s) matched"

\* C21: for a candidate with at least one skill the reasons are, in this order,
\* the required-skill reason (present exactly when the required match count N
\* is positive, and stating N), the nice-to-have reason (present exactly when
\* its match count M is positive, and stating M) and at most one experience
\* reason; every factor that adds points has its reason in the list.
C21_ReasonsStructure ==
    (Scored /\ HasSkills) =>
        LET N == MatchCountNonEmpty(job.requiredSkills)
            M == MatchCountNonEmpty(job.niceToHaveSkills)
            skillReasons ==
                (IF N > 0 THEN <<RequiredReasonOf(N)>> ELSE <<>>)
                \o (IF M > 0 THEN <<NiceReasonOf(M)>> ELSE <<>>)
            k == Len(skillReasons)
            rs == scoring.reasons
        IN /\ Len(rs) <= 3
           /\ Len(rs) \in {k, k + 1}
           /\ SubSeq(rs, 1, k) = skillReasons
           /\ Len(rs) = k + 1 => rs[k + 1] \in ExperienceReasons
           /\ \E E \in {0, 1} :
                 /\ scoring.score = Min(100, 20 * N + 8 * M + 12 * E)
                 /\ E = 1 =>
                       /\ Len(rs) = k + 1
                       /\ rs[k + 1] \in {meetsReason(x) : x \in YearValues}

\* C21 witness: all three factors contribute and the three reasons are listed
C21_Witness ==
    /\ Scored
    /\ HasSkills
    /\ Len(scoring.reasons) = 3
    /\ scoring.reasons[1] = "1 required skill(s) matched"
    /\ scoring.reasons[2] = "1 nice-to-have skill(s) matched"
    /\ scoring.reasons[3] = "Experience meets threshold (4y)"

\* what stands on a line after one of the labels and its separator
AfterLabel(line, labels) ==
    {SubSeq(line, i + Len(l) + 1, Len(line)) :
        <<i, l>> \in {p \in (1..Len(line)) \X labels :
                        /\ matchesAt(line, p[1], p[2])
                        /\ p[1] + Len(p[2]) <= Len(line)
                        /\ line[p[1] + Len(p[2])] \in LabelSeparators}}

\* the value v stands on a line of the text, after one of the labels
OnLabelLine(v, labels) ==
    \E n \in 1..Len(TextLines) :
        \E rest \in AfterLabel(TextLines[n], labels) : includes(rest, v)

AllOnLabelLine(entries, labels) ==
    \A i \in 1..Len(entries) : OnLabelLine(entries[i], labels)

\* the skills, the locations and the compensation hint come from their label's line
ListsOnLabelLine ==
    /\ AllOnLabelLine(job.requiredSkills, {lblSkills, lblRequiredSkills, lblRequirements})
    /\ AllOnLabelLine(job.niceToHaveSkills, {lblNiceToHave, lblPreferred})
    /\ AllOnLabelLine(job.locations, {lblLocation, lblLocations})
    /\ job.salaryHint # undefined =>
          OnLabelLine(job.salaryHint[1], {lblCtc, lblSalary, lblCompensation})

\* C22: every value extractJobProfile captures after a label (title, required
\* skills, nice-to-have skills, locations, compensation hint) stands on the line
\* of its label; no captured value holds text of a later line.
C22_SameLine ==
    Extracted =>
        /\ titleMatch(text) # undefined => OnLabelLine(job.title, {lblTitle})
        /\ ListsOnLabelLine

\* every skill entry of the candidate normalizes to the empty string
AllSkillsMalformed == HasSkills /\ CandNorm = {<<>>}

\* C23: a candidate whose every skill entry normalizes to the empty string earns
\* no required-skill and no nice-to-have points: the score is what the
\* experience factor gives, and no skill reason is listed.
C23_MalformedSkillsEarnNothing ==
    (Scored /\ AllSkillsMalformed) =>
        /\ scoring.score = 12 * ExperienceMet
        /\ \A i \in 1..Len(scoring.reasons) : scoring.reasons[i] \in ExperienceReasons

\* every entry of the log has its four fields set
FullyFormed(log) ==
    \A i \in 1..Len(log) :
        /\ DOMAIN log[i] = {"id", "action", "details", "timestamp"}
        /\ log[i].id \in Nat \ {0}
        /\ log[i].action \in {"job_profile_parsed", "decision_made", "email_drafted"}
        /\ log[i].details # <<>>
        /\ log[i].timestamp \in Nat

UniqueIds(log) ==
    \A i \in 1..Len(log) : \A j \in 1..Len(log) : i # j => log[i].id # log[j].id

\* C24: when n audit-recording calls are made before the log is rendered again,
\* the log gains exactly n entries, one per call and in call order, above the
\* old entries; every entry of the log has its four fields, and no two entries
\* have the same id.
C24_NoLostEntry ==
    [][/\ commit =>
             /\ Len(audit') = Len(audit) + Len(pending)
             /\ SubSeq(audit', Len(pending) + 1, Len(audit')) = audit
             /\ \A k \in 1..Len(pending) :
                   /\ audit'[Len(pending) - k + 1].action = pending[k].action
                   /\ audit'[Len(pending) - k + 1].details = pending[k].details
       /\ FullyFormed(audit')
       /\ UniqueIds(audit')]_vars

\* C24 witness: Decide Action and Draft Email were both called before the log
\* was rendered again
C24_Witness ==
    /\ audit = <<>>
    /\ Len(pending) = 2
    /\ pending[1].action = "decision_made"
    /\ pending[2].action = "email_drafted"

\* C25: in every state of the workflow the job profile in use is
\* extractJobProfile of the current text and the scoring in use is
\* scoreCandidateFit of that profile and the current candidate.
C25_DerivedValuesFresh ==
    pc = "rendered" =>
        /\ job = extractJobProfile(text)
        /\ scoring = scoreCandidateFit(job, candidate)

\* C25 witness: the text and all three candidate fields were edited
C25_Witness ==
    /\ pc = "rendered"
    /\ text = ScenarioAText
    /\ candidate.name = nameOther
    /\ candidate.skills = <<sDocker>>
    /\ candidate.yearsExperience = undefined
    /\ job.title = <<"B","a","c","k","e","n","d"," ","E","n","g","i","n","e","e","r">>
    /\ scoring.score = 0

\* the skill lists that hold the entries of skills in another order, or with
\* one entry repeated
Rearranged(skills) ==
    {[i \in 1..Len(skills) |-> skills[f[i]]] : f \in Permutations(1..Len(skills))}
    \cup {skills \o <<skills[i]>> : i \in 1..Len(skills)}
    \cup {<<skills[i]>> \o skills : i \in 1..Len(skills)}

\* C26: permuting the candidate's skills or repeating one of them leaves the
\* score and the reasons unchanged.
C26_OrderAndMultiplicity ==
    Scored =>
        \A sk \in Rearranged(candidate.skills) :
            scoreCandidateFit(job, [candidate EXCEPT !.skills = sk]) = scoring

\* C26 witness: a candidate with two different skills of which only the second
\* matches a job skill
C26_Witness ==
    /\ Scored
    /\ Len(candidate.skills) = 2
    /\ norm(candidate.skills[1]) # norm(candidate.skills[2])
    /\ scoring.score > 0
    /\ scoreCandidateFit(job, [candidate EXCEPT !.skills = <<candidate.skills[1]>>]).score
          < scoring.score

SkillSet(c) == {c.skills[i] : i \in 1..Len(c.skills)}

\* C27: a candidate with the same years of experience and a superset of the
\* skills never scores lower.
C27_MoreSkillsNeverLower ==
    Scored =>
        \A c \in PairCandidates :
            (c.yearsExperience = candidate.yearsExperience
             /\ SkillSet(candidate) \subseteq SkillSet(c))
                => scoreCandidateFit(job, c).score >= scoring.score

\* C27 witness: a candidate with one skill scores less than the candidate of
\* the pool that has this skill and one more
C27_Witness ==
    /\ Scored
    /\ Len(candidate.skills) = 1
    /\ \E c \in PairCandidates :
          /\ c.yearsExperience = candidate.yearsExperience
          /\ SkillSet(candidate) \subseteq SkillSet(c)
          /\ Len(c.skills) = 2
          /\ scoreCandidateFit(job, c).score > scoring.score

DigitChars == {DigitValues[n] : n \in 1..10}

\* the number written before the closing bracket of "... (score <n>)"
RecordedScore(details) ==
    LET j == Len(details) - 1
        i == SetMin({k \in 1..j : \A m \in k..j : details[m] \in DigitChars})
    IN parseInt(SubSeq(details, i, j))

\* scoreCandidateFit(extractJobProfile(text), candidate).score, read from the
\* tables of the two functions
CurrentScore == scoringMemo[jobProfileMemo[text]][candidate].score

\* C28: the decision_made and the email_drafted entry record the score of the
\* text and the candidate current when the button is pressed, and no later step
\* changes an entry of the log.
C28_RecordedScore ==
    [][/\ (handleAutoDecision \/ handleEmailDraft) =>
             /\ audit'[1].details[Len(audit'[1].details)] = ")"
             /\ RecordedScore(audit'[1].details) = CurrentScore
       /\ \A i \in 1..Len(audit) :
             /\ Len(audit') >= Len(audit)
             /\ audit'[i + Len(audit') - Len(audit)] = audit[i]]_vars

\* C28 witness: the decision was recorded at score 80; the text was edited
\* afterwards and the score in use is 0
C28_Witness ==
    /\ Len(audit) = 1
    /\ audit[1].action = "decision_made"
    /\ RecordedScore(audit[1].details) = 80
    /\ text = ScenarioAText
    /\ scoring.score = 0

StartsWith(s, prefix) == Len(s) >= Len(prefix) /\ SubSeq(s, 1, Len(prefix)) = prefix

\* the draft is the invitation: it greets with "Hi" and asks for a call
IsInvitation(d) ==
    /\ StartsWith(d, <<"H", "i", " ">>)
    /\ includes(d, <<"q","u","i","c","k"," ","c","a","l","l">>)

\* the draft is the holding text: it greets with "Hello" and announces a reply
IsHoldingText(d) ==
    /\ StartsWith(d, <<"H", "e", "l", "l", "o", " ">>)
    /\ includes(d, <<"w","i","l","l"," ","r","e","v","e","r","t"," ","s","o","o","n">>)

\* C29: Draft Email produces the invitation exactly when the decision for the
\* current score is proceed_to_interview, and the holding text otherwise; this
\* holds for the draft of every score of 0..100.
C29_DraftAgreesWithDecision ==
    [][handleEmailDraft =>
          /\ IF decide(scoring.score) = "proceed_to_interview"
             THEN IsInvitation(clip'.draft) /\ ~IsHoldingText(clip'.draft)
             ELSE IsHoldingText(clip'.draft) /\ ~IsInvitation(clip'.draft)
          /\ \A s \in 0..100 :
                IsInvitation(emailDraft(s, job.title, candidate.name))
                   <=> decide(s) = "proceed_to_interview"]_vars

\* C29 witness: drafts were made at score 80 and, after an edit, at a score
\* below the threshold
C29_Witness ==
    /\ Len(audit) = 2
    /\ audit[2].action = "email_drafted"
    /\ RecordedScore(audit[2].details) = 80
    /\ clip.outcome = "written"
    /\ scoring.score = 68
    /\ IsHoldingText(clip.draft)

\* the number of entries of a job skill list with a non-empty normalized form
NonEmptyCount(skills) ==
    Cardinality({i \in 1..Len(skills) : norm(skills[i]) # <<>>})

\* the match counts the scorer reports in its reasons (0 without a reason)
ReportedCount(reasonOf(_), skills) ==
    LET ns == {n \in 1..Len(skills) : HasReason(reasonOf(n))}
    IN IF ns = {} THEN 0 ELSE SetMax(ns)

\* C30: a job skill that normalizes to the empty string is never counted as
\* matched: the reported required and nice-to-have match counts are at most the
\* numbers of such skills with a non-empty normalized form, and the score is at
\* most what these skills and the experience can give.
C30_EmptyJobSkillNeverMatched ==
    (Scored /\ HasSkills) =>
        /\ ReportedCount(RequiredReasonOf, job.requiredSkills)
              <= NonEmptyCount(job.requiredSkills)
        /\ ReportedCount(NiceReasonOf, job.niceToHaveSkills)
              <= NonEmptyCount(job.niceToHaveSkills)
        /\ \A i \in 1..Len(scoring.reasons) :
              /\ scoring.reasons[i] # RequiredReasonOf(Len(job.requiredSkills) + 1)
              /\ NonEmptyCount(job.requiredSkills) = 0 =>
                    scoring.reasons[i] \in ExperienceReasons \cup
                        {NiceReasonOf(n) : n \in 1..Len(job.niceToHaveSkills)}
        /\ scoring.score <= ReqWeight * NonEmptyCount(job.requiredSkills)
                             + NiceWeight * NonEmptyCount(job.niceToHaveSkills)
                             + ExpWeight

\* C30 witness: the job lists a required skill that normalizes to the empty
\* string next to one that does not; the candidate's skill also normalizes to
\* the empty string, and one required skill is counted
C30_Witness ==
    /\ Scored
    /\ CandNorm = {<<>>}
    /\ Len(job.requiredSkills) = 2
    /\ NonEmptyCount(job.requiredSkills) = 1
    /\ scoring.reasons[1] = "1 required skill(s) matched"

====
